---- MODULE Spec2Model ----
(***************************************************************************)
(* Model of financepro's user data manager (src/data_manager.py) and of    *)
(* the GUI callbacks of src/main.py that drive it.                         *)
(*                                                                         *)
(* One process at a time owns the per-user directory.  The disk holds      *)
(* data.json and config.json; the process holds a DataManager whose        *)
(* boot_user_data and combined_user_data attributes are REFERENCES into a  *)
(* heap of UserData objects (Python object semantics), and whose           *)
(* new_user_data attribute is an object nothing else refers to.            *)
(***************************************************************************)
EXTENDS Integers, Sequences, FiniteSets, TLC

(***************************************************************************)
(* Bounds of the model.                                                    *)
(***************************************************************************)
MaxExpenses == 2      \* longest combined_user_data.expenses explored
MaxLaunches == 3      \* largest launches counter explored
MaxFaults   == 1      \* file operations the environment lets fail in one run

(***************************************************************************)
(* class Expense(msgspec.Struct), restricted to the fields that the model  *)
(* gives values to (the optional date_time, description and notes stay     *)
(* None).  ExpenseInputs are the expenses the callers pass to add_expense: *)
(* two that share a category and a tag, and one without tags.  tags is a   *)
(* set of strings, as the class declares it and as the decoder builds it.  *)
(***************************************************************************)
username == "guest"

Coffee == [amount |-> 12, name |-> "Coffee", category |-> "Food", tags |-> {"daily"}]
Tea    == [amount |-> 5,  name |-> "Tea",    category |-> "Food", tags |-> {"daily"}]
Rent   == [amount |-> 5,  name |-> "Rent",   category |-> "Home", tags |-> {}]

ExpenseInputs == {Coffee, Tea, Rent}

(***************************************************************************)
(* Python containers.  An index attribute of a UserData is a set when it   *)
(* comes from the decoder or from UserData(), and a list once revert_data  *)
(* has rebuilt it with a list comprehension.  Both hold distinct strings;  *)
(* kind records which of the two Python types the attribute has.           *)
(***************************************************************************)
PySet(S)  == [kind |-> "set",  elems |-> S]
PyList(S) == [kind |-> "list", elems |-> S]

\* UserData(): msgspec gives every instance its own empty containers
UserData == [expenses |-> << >>, names |-> PySet({}),
             categories |-> PySet({}), tags |-> PySet({})]

Range(s) == {s[i] : i \in 1..Len(s)}

RECURSIVE SetToSeq(_)
\* the array the encoder writes for a set or list of distinct strings
SetToSeq(S) ==
    IF S = {} THEN << >>
    ELSE LET x == CHOOSE y \in S : TRUE IN <<x>> \o SetToSeq(S \ {x})

(***************************************************************************)
(* msgspec.json.encode / msgspec.json.decode of a UserData.  The JSON      *)
(* document has arrays where the object has sets or lists; the decoder     *)
(* builds sets from the arrays (type=UserData).                            *)
(***************************************************************************)
encode_expense(e) ==
    [amount |-> e.amount, name |-> e.name, category |-> e.category,
     tags |-> SetToSeq(e.tags)]

decode_expense(j) ==
    [amount |-> j.amount, name |-> j.name, category |-> j.category,
     tags |-> Range(j.tags)]

json_encode(ud) ==
    [expenses   |-> [i \in 1..Len(ud.expenses) |-> encode_expense(ud.expenses[i])],
     names      |-> SetToSeq(ud.names.elems),
     categories |-> SetToSeq(ud.categories.elems),
     tags       |-> SetToSeq(ud.tags.elems)]

json_decode(j) ==
    [expenses   |-> [i \in 1..Len(j.expenses) |-> decode_expense(j.expenses[i])],
     names      |-> PySet(Range(j.names)),
     categories |-> PySet(Range(j.categories)),
     tags       |-> PySet(Range(j.tags))]

(***************************************************************************)
(* Files.  tag is "absent" (no such file), "json" (val is a well-typed     *)
(* document), "wrong_type" (a document with a wrong-typed field) or        *)
(* "truncated" (opened with "wb" and not written).                         *)
(***************************************************************************)
NoJson     == json_encode(UserData)
AbsentFile == [tag |-> "absent", val |-> NoJson]
DataFile(ud)   == [tag |-> "json", val |-> json_encode(ud)]
WrongTypedFile == [tag |-> "wrong_type", val |-> NoJson]
TruncatedFile  == [tag |-> "truncated", val |-> NoJson]

\* len() of the strings the model uses
StrLen(s) ==
    CASE s = "Coffee" -> 6
      [] s = "Tea"    -> 3
      [] s = "Food"   -> 4
      [] s = "daily"  -> 5
      [] s = "guest"  -> 5
      [] s = "Rent"   -> 4
      [] s = "Home"   -> 4
      [] s = "work"   -> 4

\* number of decimal digits of a natural number below 10000
Digits(n) == IF n < 10 THEN 1 ELSE IF n < 100 THEN 2 ELSE IF n < 1000 THEN 3 ELSE 4

KiB == 1024
\* humanize.naturalsize(n, binary=True): "<n> Bytes" below 1 KiB, else
\* "<x.y> KiB" (value is then in tenths of a KiB)
naturalsize(n) ==
    IF n < KiB THEN [value |-> n, unit |-> "Bytes"]
    ELSE [value |-> (n * 10) \div KiB, unit |-> "KiB"]

\* len() of the string naturalsize returns
SizeStrLen(ds) ==
    IF ds.unit = "Bytes" THEN Digits(ds.value) + 6 ELSE Digits(ds.value) + 5

NoConfig == [username |-> username, launches |-> 0, data_size |-> naturalsize(0)]
AbsentConfig    == [tag |-> "absent", val |-> NoConfig]
ConfigFile(cfg) == [tag |-> "json", val |-> cfg]
TruncatedConfig == [tag |-> "truncated", val |-> NoConfig]

RECURSIVE ArrayBytes(_)
\* bytes of the elements of a JSON array of strings, commas included
ArrayBytes(a) ==
    IF a = << >> THEN 0
    ELSE StrLen(Head(a)) + 2 + (IF Len(a) > 1 THEN 1 ELSE 0) + ArrayBytes(Tail(a))

\* bytes of one encoded Expense: the 94 bytes of keys, punctuation and the
\* three null fields, the amount as a float ("5.0"), and the field values
ExpenseBytes(j) ==
    94 + (Digits(j.amount) + 2) + StrLen(j.name) + StrLen(j.category)
       + ArrayBytes(j.tags)

RECURSIVE ExpensesBytes(_)
ExpensesBytes(js) ==
    IF js = << >> THEN 0
    ELSE ExpenseBytes(Head(js)) + (IF Len(js) > 1 THEN 1 ELSE 0)
         + ExpensesBytes(Tail(js))

\* st_size of data.json / config.json
DataBytes(f) ==
    IF f.tag = "json"
    THEN 52 + ExpensesBytes(f.val.expenses) + ArrayBytes(f.val.names)
            + ArrayBytes(f.val.categories) + ArrayBytes(f.val.tags)
    ELSE 0
ConfigBytes(f) ==
    IF f.tag = "json"
    THEN 42 + StrLen(f.val.username) + Digits(f.val.launches)
            + SizeStrLen(f.val.data_size)
    ELSE 0

\* get_user_data_size: the files under the user directory are data.json,
\* config.json and data_manager.log; the log is truncated by __init__ and
\* nothing is logged to it on the paths that reach this call
get_user_data_size(data, config) ==
    naturalsize(DataBytes(data) + ConfigBytes(config) + 0)

(***************************************************************************)
(* State.                                                                  *)
(***************************************************************************)
VARIABLES
    dir_exists,          \* os.path.isdir(user_app_data_dir)
    data_file,           \* data.json
    config_file,         \* config.json
    pc,                  \* "stopped": no DataManager; "running": one constructed
    heap,                \* the UserData objects boot/combined refer to
    boot_user_data,      \* self.boot_user_data: a reference into heap
    combined_user_data,  \* self.combined_user_data: a reference into heap
    new_user_data,       \* self.new_user_data: an unshared UserData
    current_user_config, \* self.current_user_config (boot_user_config is the same object)
    last_op,             \* the operation that ran last
    error,               \* the exception it raised, or "none"
    ret,                 \* what it returned to its caller
    wrote,               \* the files it opened for writing and wrote
    notification,        \* the notification the GUI callback showed
    consecutive_saves,   \* save_data calls since the last other operation (capped at 2)
    fault_budget,        \* file operations the environment may still let fail
    only_adds,           \* only add_expense has run since the DataManager was constructed
    dup_added,           \* an expense equal to one already held was added this session
    procs,               \* per process constructing a DataManager: its position in __init__
    platform,            \* platform.system() of the host
    launches_at_load,    \* launches in memory after the last successful load_data; 0 before the first
    prompt               \* components["logout"]["prompt"].visible

disk == <<dir_exists, data_file, config_file>>
vars == <<dir_exists, data_file, config_file, pc, heap, boot_user_data,
          combined_user_data, new_user_data, current_user_config,
          last_op, error, ret, wrote, notification, consecutive_saves, fault_budget,
          only_adds, dup_added, procs, platform, launches_at_load, prompt>>

\* the variables of a constructed DataManager and of its history
session == <<pc, heap, boot_user_data, combined_user_data, new_user_data,
             current_user_config, last_op, error, ret, wrote, notification,
             consecutive_saves, fault_budget, only_adds, dup_added>>

NULL    == 0
NoHeap  == << >>
BootObj == 1          \* the object msgspec.json.decode returns in load_data

\* the objects the two attributes refer to
BootData     == heap[boot_user_data]
CombinedData == heap[combined_user_data]

\* the values of platform.system() that set_AppData_path has a branch for
RecognizedPlatforms == {"Darwin", "Linux", "Windows"}

\* the hosts of the model: one recognised (the three branches differ only in
\* the directory's path) and one that is not
Hosts == {"Linux", "FreeBSD"}

\* set_AppData_path accepting every platform
platform_supported_always(os_type) == TRUE

\* the if/elif chain on os_type of set_AppData_path: its else branch raises
\* NotImplementedError before any path is computed
platform_supported(os_type) == os_type \in RecognizedPlatforms

(***************************************************************************)
(* DataManager.set_AppData_path on a recognised platform: returns whether  *)
(* the user directory existed and creates it when it did not.              *)
(***************************************************************************)
\* set_AppData_path reporting every user as new
set_AppData_path_never_existed(dir) == [existed |-> FALSE, dir_exists |-> TRUE]

set_AppData_path(dir) == [existed |-> dir, dir_exists |-> TRUE]

(***************************************************************************)
(* DataManager.create_new_user: writes an empty UserData to data.json,     *)
(* then opens config.json with "wb" (it is empty while the size is taken)  *)
(* and writes launches = 1.                                                *)
(***************************************************************************)
\* create_new_user writing launches = 0 to config.json
create_new_user_zero_launches ==
    LET d == DataFile(UserData)
    IN  [data_file   |-> d,
         config_file |-> ConfigFile([username  |-> username,
                                     launches  |-> 0,
                                     data_size |-> get_user_data_size(d, TruncatedConfig)])]

create_new_user ==
    LET d == DataFile(UserData)
    IN  [data_file   |-> d,
         config_file |-> ConfigFile([username  |-> username,
                                     launches  |-> 1,
                                     data_size |-> get_user_data_size(d, TruncatedConfig)])]

(***************************************************************************)
(* DataManager.load_data on the files d and c.  A wrong-typed data.json    *)
(* raises msgspec.ValidationError, which the handler catches; the handler  *)
(* then fails with AttributeError (re.search finds no "at '$." in the      *)
(* message and .group is taken of None; and boot_user_data was never       *)
(* assigned when line 208 reads it).  An empty file is a DecodeError that  *)
(* nothing catches.  combined_user_data is the SAME object as              *)
(* boot_user_data, and launches is incremented in memory only.             *)
(***************************************************************************)
\* load_data leaving launches as read from config.json
load_data_no_increment(d, c) ==
    LET failed(e) == [error |-> e, heap |-> NoHeap, boot_user_data |-> NULL,
                      combined_user_data |-> NULL, current_user_config |-> NoConfig]
    IN  CASE d.tag = "absent"     -> failed("FileNotFoundError")
          [] d.tag = "truncated"  -> failed("DecodeError")
          [] d.tag = "wrong_type" -> failed("AttributeError")
          [] c.tag = "absent"     -> failed("FileNotFoundError")
          [] c.tag # "json"       -> failed("DecodeError")
          [] OTHER ->
               [error |-> "none",
                heap  |-> (BootObj :> json_decode(d.val)),
                boot_user_data     |-> BootObj,
                combined_user_data |-> BootObj,
                current_user_config |-> c.val]

load_data(d, c) ==
    LET failed(e) == [error |-> e, heap |-> NoHeap, boot_user_data |-> NULL,
                      combined_user_data |-> NULL, current_user_config |-> NoConfig]
    IN  CASE d.tag = "absent"     -> failed("FileNotFoundError")
          [] d.tag = "truncated"  -> failed("DecodeError")
          [] d.tag = "wrong_type" -> failed("AttributeError")
          [] c.tag = "absent"     -> failed("FileNotFoundError")
          [] c.tag # "json"       -> failed("DecodeError")
          [] OTHER ->
               [error |-> "none",
                heap  |-> (BootObj :> json_decode(d.val)),
                boot_user_data     |-> BootObj,
                combined_user_data |-> BootObj,
                current_user_config |-> [c.val EXCEPT !.launches = @ + 1]]

(***************************************************************************)
(* One "if value not in combined index: add to new index, add to combined  *)
(* index" of add_expense, on the pair st = (new object n, combined object  *)
(* cd).  new_user_data's index is a set; combined's is a list after a      *)
(* revert, and list has no .add: the statement raises AttributeError after *)
(* the new index has already been updated.                                 *)
(***************************************************************************)
\* add_to_index assigning {v} to the combined index instead of adding v to it
add_to_index_replaces(st, field, v) ==
    IF st.error # "none" \/ v \in st.cd[field].elems THEN st
    ELSE LET n2 == [st.n EXCEPT ![field].elems = @ \cup {v}]
         IN  IF st.cd[field].kind = "list"
             THEN [st EXCEPT !.n = n2, !.error = "AttributeError"]
             ELSE [st EXCEPT !.n = n2, !.cd[field].elems = {v}]

add_to_index(st, field, v) ==
    IF st.error # "none" \/ v \in st.cd[field].elems THEN st
    ELSE LET n2 == [st.n EXCEPT ![field].elems = @ \cup {v}]
         IN  IF st.cd[field].kind = "list"
             THEN [st EXCEPT !.n = n2, !.error = "AttributeError"]
             ELSE [st EXCEPT !.n = n2, !.cd[field].elems = @ \cup {v}]

\* new_tags = set(expense.tags) - combined.tags, then both .update(new_tags);
\* set - list raises TypeError
update_tags(st, tags) ==
    IF st.error # "none" THEN st
    ELSE IF st.cd.tags.kind = "list" THEN [st EXCEPT !.error = "TypeError"]
    ELSE LET new_tags == tags \ st.cd.tags.elems
         IN  [st EXCEPT !.n.tags.elems = @ \cup new_tags,
                        !.cd.tags.elems = @ \cup new_tags]

(***************************************************************************)
(* DataManager.add_expense(expense) on heap h, combined reference c and    *)
(* new_user_data n.  The statements before a raise keep their effect.      *)
(***************************************************************************)
add_expense(h, c, n, expense) ==
    LET s0 == [n     |-> [n EXCEPT !.expenses = Append(@, expense)],
               cd    |-> [h[c] EXCEPT !.expenses = Append(@, expense)],
               error |-> "none"]
        s1 == add_to_index(s0, "names", expense.name)
        s2 == add_to_index(s1, "categories", expense.category)
        s3 == update_tags(s2, expense.tags)
    IN  [heap |-> [h EXCEPT ![c] = s3.cd], new_user_data |-> s3.n,
         error |-> s3.error]

\* the tags typed into the "create tag" box: one that the expenses also
\* carry and one that only this box introduces
TagInputs == {"daily", "work"}

\* GUI.create_new_tag(event) for event.new = tag, past its "reset" guard:
\* "if event.new not in combined.tags: new.tags.add; combined.tags.add",
\* else the "Tag already exists." notification
create_new_tag(h, c, n, tag) ==
    LET s1 == add_to_index([n |-> n, cd |-> h[c], error |-> "none"], "tags", tag)
    IN  [heap |-> [h EXCEPT ![c] = s1.cd], new_user_data |-> s1.n, error |-> s1.error,
         notification |-> IF tag \in h[c].tags.elems THEN "error"
                          ELSE IF s1.error = "none" THEN "success" ELSE "none"]

\* logout_btn_clk showing the prompt whatever new_user_data holds
logout_prompt_always(n) == TRUE

\* logout_btn_clk: "if self.data_manager.new_user_data != UserData()"
logout_prompt(n) == n # UserData

\* revert_data without its last statement (new_user_data is not reset)
revert_data_keeps_new(h, c, n) ==
    LET cd  == h[c]
        kept(e) == e \notin Range(n.expenses)
    IN  [heap |-> [h EXCEPT ![c] =
                     [expenses   |-> SelectSeq(cd.expenses, kept),
                      names      |-> PyList(cd.names.elems \ n.names.elems),
                      categories |-> PyList(cd.categories.elems \ n.categories.elems),
                      tags       |-> PyList(cd.tags.elems \ n.tags.elems)]],
         new_user_data |-> n]

(***************************************************************************)
(* DataManager.revert_data: filters the combined object's expenses and     *)
(* indices by membership (value equality) in new_user_data's, assigning    *)
(* LISTS to the three index attributes, and resets new_user_data.          *)
(***************************************************************************)
revert_data(h, c, n) ==
    LET cd  == h[c]
        kept(e) == e \notin Range(n.expenses)
    IN  [heap |-> [h EXCEPT ![c] =
                     [expenses   |-> SelectSeq(cd.expenses, kept),
                      names      |-> PyList(cd.names.elems \ n.names.elems),
                      categories |-> PyList(cd.categories.elems \ n.categories.elems),
                      tags       |-> PyList(cd.tags.elems \ n.tags.elems)]],
         new_user_data |-> UserData]

(***************************************************************************)
(* DataManager.save_data.  fail names the file operation that raises       *)
(* OSError, if any: open(data,"wb"), the write to it (the file is already  *)
(* truncated), open(config,"wb") or the write to it.  new_user_data is     *)
(* reset and data_size recomputed between the two files; nothing is        *)
(* returned (None).                                                        *)
(***************************************************************************)
SaveFailures == {"none", "data_open", "data_write", "config_open", "config_write"}

\* save_data encoding new_user_data instead of combined_user_data
save_data_writes_new(h, c, n, cfg, d, cf, fail) ==
    LET d2   == DataFile(n)
        cfg2 == [cfg EXCEPT !.data_size = get_user_data_size(d2, cf)]
        res(df, cff, nn, cc, e, w) ==
            [data_file |-> df, config_file |-> cff, new_user_data |-> nn,
             current_user_config |-> cc, error |-> e, ret |-> "None", wrote |-> w]
    IN  CASE fail = "data_open"    -> res(d, cf, n, cfg, "OSError", {})
          [] fail = "data_write"   -> res(TruncatedFile, cf, n, cfg, "OSError", {})
          [] fail = "config_open"  -> res(d2, cf, UserData, cfg2, "OSError", {"data"})
          [] fail = "config_write" -> res(d2, TruncatedConfig, UserData, cfg2, "OSError", {"data"})
          [] OTHER                 -> res(d2, ConfigFile(cfg2), UserData, cfg2, "none",
                                          {"data", "config"})

save_data(h, c, n, cfg, d, cf, fail) ==
    LET d2   == DataFile(h[c])
        cfg2 == [cfg EXCEPT !.data_size = get_user_data_size(d2, cf)]
        res(df, cff, nn, cc, e, w) ==
            [data_file |-> df, config_file |-> cff, new_user_data |-> nn,
             current_user_config |-> cc, error |-> e, ret |-> "None", wrote |-> w]
    IN  CASE fail = "data_open"    -> res(d, cf, n, cfg, "OSError", {})
          [] fail = "data_write"   -> res(TruncatedFile, cf, n, cfg, "OSError", {})
          [] fail = "config_open"  -> res(d2, cf, UserData, cfg2, "OSError", {"data"})
          [] fail = "config_write" -> res(d2, TruncatedConfig, UserData, cfg2, "OSError", {"data"})
          [] OTHER                 -> res(d2, ConfigFile(cfg2), UserData, cfg2, "none",
                                          {"data", "config"})

\* save_data_btn_clk: "if self.data_manager.save_data(): success else: warning"
save_notification(r) == IF r = "True" THEN "success" ELSE "warning"

(***************************************************************************)
(* Initial states: no process runs.  Either the user has never been seen   *)
(* (no directory), or the directory holds a data.json one of whose fields  *)
(* has the wrong type.                                                     *)
(***************************************************************************)
\* the processes that run main() for the same username at the same time
Procs == {"p1", "p2"}

\* a process about to call DataManager(): at the isdir test of set_AppData_path
StartProc == [pc |-> "isdir", existed |-> FALSE, race |-> "none", error |-> "none",
              bootstrapped |-> FALSE, data_size |-> "",
              data |-> UserData, config |-> NoConfig]

FreshDisk   == dir_exists = FALSE /\ data_file = AbsentFile /\ config_file = AbsentConfig
CorruptDisk == /\ dir_exists = TRUE
               /\ data_file = WrongTypedFile
               /\ config_file = ConfigFile(create_new_user.config_file.val)

Start(budget) ==
    /\ FreshDisk \/ CorruptDisk
    /\ pc = "stopped"
    /\ heap = NoHeap
    /\ boot_user_data = NULL
    /\ combined_user_data = NULL
    /\ new_user_data = UserData
    /\ current_user_config = NoConfig
    /\ last_op = "none"
    /\ error = "none"
    /\ ret = "None"
    /\ wrote = {}
    /\ notification = "none"
    /\ consecutive_saves = 0
    /\ fault_budget = budget
    /\ only_adds = FALSE
    /\ dup_added = FALSE
    /\ procs = [p \in Procs |-> StartProc]
    /\ launches_at_load = 0
    /\ prompt = FALSE

\* a recognised host on which every file operation succeeds
Init == Start(0) /\ platform = "Linux"

\* up to MaxFaults file operations of a run fail with OSError
InitFaults == Start(MaxFaults) /\ platform = "Linux"

\* any host: a recognised one or one that set_AppData_path has no branch for
InitHost == Start(0) /\ platform \in Hosts

(***************************************************************************)
(* DataManager.__init__ (GUI.__init__ constructs the DataManager).         *)
(***************************************************************************)
Construct ==
    /\ pc = "stopped"
    /\ config_file.tag = "json" => config_file.val.launches < MaxLaunches
    /\ IF ~platform_supported(platform)
       THEN /\ last_op' = "construct"
            /\ error' = "NotImplementedError"
            /\ UNCHANGED <<disk, pc, heap, boot_user_data, combined_user_data,
                           new_user_data, current_user_config, ret, wrote,
                           notification, consecutive_saves, fault_budget,
                           only_adds, dup_added, launches_at_load>>
       ELSE
              LET r   == set_AppData_path(dir_exists)
                  new == create_new_user
                  d   == IF r.existed THEN data_file ELSE new.data_file
                  c   == IF r.existed THEN config_file ELSE new.config_file
                  l   == load_data(d, c)
              IN  /\ dir_exists' = r.dir_exists
                  /\ data_file' = d
                  /\ config_file' = c
                  /\ pc' = IF l.error = "none" THEN "running" ELSE "stopped"
                  /\ heap' = l.heap
                  /\ boot_user_data' = l.boot_user_data
                  /\ combined_user_data' = l.combined_user_data
                  /\ new_user_data' = UserData
                  /\ current_user_config' = l.current_user_config
                  /\ last_op' = "construct"
                  /\ error' = l.error
                  /\ ret' = "None"
                  /\ wrote' = IF r.existed THEN {} ELSE {"data", "config"}
                  /\ notification' = "none"
                  /\ consecutive_saves' = 0
                  /\ only_adds' = (l.error = "none")
                  /\ dup_added' = FALSE
                  /\ launches_at_load' = IF l.error = "none"
                                         THEN l.current_user_config.launches
                                         ELSE launches_at_load
                  /\ UNCHANGED fault_budget
    /\ UNCHANGED <<procs, platform, prompt>>

(***************************************************************************)
(* add_expense_btn_clk -> DataManager.add_expense(expense)                 *)
(***************************************************************************)
AddExpense ==
    /\ pc = "running"
    /\ Len(CombinedData.expenses) < MaxExpenses
    /\ \E expense \in ExpenseInputs :
         LET r == add_expense(heap, combined_user_data, new_user_data, expense)
         IN  /\ heap' = r.heap
             /\ new_user_data' = r.new_user_data
             /\ error' = r.error
             /\ notification' = IF r.error = "none" THEN "success" ELSE "none"
             /\ dup_added' = (dup_added \/ expense \in Range(CombinedData.expenses))
    /\ last_op' = "add_expense"
    /\ ret' = "None"
    /\ wrote' = {}
    /\ consecutive_saves' = 0
    /\ UNCHANGED <<disk, pc, boot_user_data, combined_user_data, current_user_config,
                   fault_budget, only_adds, procs, platform, launches_at_load, prompt>>

(***************************************************************************)
(* save_data_btn_clk -> DataManager.save_data()                            *)
(***************************************************************************)
Save ==
    /\ pc = "running"
    /\ \E fail \in SaveFailures :
         /\ fail # "none" => fault_budget > 0
         /\ fault_budget' = IF fail = "none" THEN fault_budget ELSE fault_budget - 1
         /\ LET r == save_data(heap, combined_user_data, new_user_data,
                               current_user_config, data_file, config_file, fail)
            IN  /\ data_file' = r.data_file
                /\ config_file' = r.config_file
                /\ new_user_data' = r.new_user_data
                /\ current_user_config' = r.current_user_config
                /\ error' = r.error
                /\ ret' = r.ret
                /\ wrote' = r.wrote
                /\ notification' = IF r.error = "none" THEN save_notification(r.ret)
                                   ELSE "none"
    /\ last_op' = "save"
    /\ consecutive_saves' = IF consecutive_saves < 2 THEN consecutive_saves + 1 ELSE 2
    /\ only_adds' = FALSE
    /\ UNCHANGED <<dir_exists, pc, heap, boot_user_data, combined_user_data, dup_added, procs, platform, launches_at_load, prompt>>

(***************************************************************************)
(* go_to_login_page("No") -> DataManager.revert_data()                     *)
(***************************************************************************)
\* go_to_login_page with its branches swapped: "No" also overwrites data.json
Revert_saves ==
    /\ pc = "running"
    /\ LET r == revert_data(heap, combined_user_data, new_user_data)
       IN  /\ heap' = r.heap
           /\ new_user_data' = r.new_user_data
    /\ last_op' = "revert"
    /\ error' = "none"
    /\ ret' = "None"
    /\ wrote' = {}
    /\ notification' = "none"
    /\ consecutive_saves' = 0
    /\ only_adds' = FALSE
    /\ data_file' = DataFile(CombinedData)
    /\ UNCHANGED <<dir_exists, config_file, pc, boot_user_data, combined_user_data, current_user_config,
                   fault_budget, dup_added, procs, platform, launches_at_load, prompt>>

Revert ==
    /\ pc = "running"
    /\ LET r == revert_data(heap, combined_user_data, new_user_data)
       IN  /\ heap' = r.heap
           /\ new_user_data' = r.new_user_data
    /\ last_op' = "revert"
    /\ error' = "none"
    /\ ret' = "None"
    /\ wrote' = {}
    /\ notification' = "none"
    /\ consecutive_saves' = 0
    /\ only_adds' = FALSE
    /\ UNCHANGED <<disk, pc, boot_user_data, combined_user_data, current_user_config,
                   fault_budget, dup_added, procs, platform, launches_at_load, prompt>>

(***************************************************************************)
(* The process ends (main returns or is killed): the DataManager is gone,  *)
(* the files stay.                                                         *)
(***************************************************************************)
Exit ==
    /\ pc = "running"
    /\ pc' = "stopped"
    /\ heap' = NoHeap
    /\ boot_user_data' = NULL
    /\ combined_user_data' = NULL
    /\ new_user_data' = UserData
    /\ current_user_config' = NoConfig
    /\ last_op' = "exit"
    /\ error' = "none"
    /\ ret' = "None"
    /\ wrote' = {}
    /\ notification' = "none"
    /\ consecutive_saves' = 0
    /\ only_adds' = FALSE
    /\ dup_added' = FALSE
    /\ UNCHANGED <<disk, fault_budget, procs, platform, launches_at_load>>
    /\ prompt' = FALSE

Next == Construct \/ AddExpense \/ Save \/ Revert \/ Exit

(***************************************************************************)
(* GUI.create_new_tag: the user enters a tag in the "create tag" box.       *)
(***************************************************************************)
CreateTag ==
    /\ pc = "running"
    /\ \E tag \in TagInputs :
         LET r == create_new_tag(heap, combined_user_data, new_user_data, tag)
         IN  /\ heap' = r.heap
             /\ new_user_data' = r.new_user_data
             /\ error' = r.error
             /\ notification' = r.notification
    /\ last_op' = "create_tag"
    /\ ret' = "None"
    /\ wrote' = {}
    /\ consecutive_saves' = 0
    /\ only_adds' = FALSE
    /\ UNCHANGED <<disk, pc, boot_user_data, combined_user_data, current_user_config,
                   fault_budget, dup_added, procs, platform, launches_at_load, prompt>>

NextTags == Next \/ CreateTag

(***************************************************************************)
(* logout_btn_clk: the Logout button.  The prompt is made visible when     *)
(* there is unsaved data; nothing hides it when there is none.             *)
(***************************************************************************)
LogoutClick ==
    /\ pc = "running"
    /\ prompt' = IF logout_prompt(new_user_data) THEN TRUE ELSE prompt
    /\ last_op' = "logout_click"
    /\ error' = "none"
    /\ ret' = "None"
    /\ wrote' = {}
    /\ notification' = "none"
    /\ consecutive_saves' = 0
    /\ only_adds' = FALSE
    /\ UNCHANGED <<disk, pc, heap, boot_user_data, combined_user_data, new_user_data,
                   current_user_config, fault_budget, dup_added, procs, platform,
                   launches_at_load>>

(***************************************************************************)
(* go_to_login_page for the "Yes" button of the prompt: save_data(), then   *)
(* the prompt is hidden (not when save_data raised).                       *)
(***************************************************************************)
AnswerYes ==
    /\ pc = "running"
    /\ prompt
    /\ \E fail \in SaveFailures :
         /\ fail # "none" => fault_budget > 0
         /\ fault_budget' = IF fail = "none" THEN fault_budget ELSE fault_budget - 1
         /\ LET r == save_data(heap, combined_user_data, new_user_data,
                               current_user_config, data_file, config_file, fail)
            IN  /\ data_file' = r.data_file
                /\ config_file' = r.config_file
                /\ new_user_data' = r.new_user_data
                /\ current_user_config' = r.current_user_config
                /\ error' = r.error
                /\ prompt' = (r.error # "none")
                /\ ret' = r.ret
                /\ wrote' = r.wrote
                /\ notification' = IF r.error = "none" THEN save_notification(r.ret)
                                   ELSE "none"
    /\ last_op' = "answer_yes"
    /\ consecutive_saves' = IF consecutive_saves < 2 THEN consecutive_saves + 1 ELSE 2
    /\ only_adds' = FALSE
    /\ UNCHANGED <<dir_exists, pc, heap, boot_user_data, combined_user_data, dup_added, procs, platform, launches_at_load>>

(***************************************************************************)
(* go_to_login_page for the "No" button of the prompt: revert_data(), then  *)
(* the prompt is hidden.                                                   *)
(***************************************************************************)
AnswerNo ==
    /\ pc = "running"
    /\ prompt
    /\ LET r == revert_data(heap, combined_user_data, new_user_data)
       IN  /\ heap' = r.heap
           /\ new_user_data' = r.new_user_data
    /\ last_op' = "answer_no"
    /\ error' = "none"
    /\ ret' = "None"
    /\ wrote' = {}
    /\ notification' = "none"
    /\ consecutive_saves' = 0
    /\ only_adds' = FALSE
    /\ UNCHANGED <<disk, pc, boot_user_data, combined_user_data, current_user_config,
                   fault_budget, dup_added, procs, platform, launches_at_load>>
    /\ prompt' = FALSE

\* one session of the GUI, from the construction of the DataManager on
NextLogout ==
    \/ Construct \/ AddExpense \/ Save \/ Revert \/ CreateTag
    \/ LogoutClick \/ AnswerYes \/ AnswerNo

(***************************************************************************)
(* The process is killed inside save_data.  point is the statement it had  *)
(* reached: the data file is open ("wb" has emptied it and none or part of *)
(* the document is in it), the data file is written and closed, or the     *)
(* config file is open in its turn.  Nothing is written under another name *)
(* and renamed: the files are overwritten in place.                        *)
(***************************************************************************)
CrashPoints == {"data_opened", "data_written", "config_opened"}

crash_in_save(h, c, d, cf, point) ==
    CASE point = "data_opened"  -> [data_file |-> TruncatedFile,  config_file |-> cf]
      [] point = "data_written" -> [data_file |-> DataFile(h[c]), config_file |-> cf]
      [] OTHER                  -> [data_file |-> DataFile(h[c]), config_file |-> TruncatedConfig]

CrashInSave ==
    /\ pc = "running"
    /\ fault_budget > 0
    /\ fault_budget' = fault_budget - 1
    /\ \E point \in CrashPoints :
         LET r == crash_in_save(heap, combined_user_data, data_file, config_file, point)
         IN  /\ data_file' = r.data_file
             /\ config_file' = r.config_file
    /\ pc' = "stopped"
    /\ heap' = NoHeap
    /\ boot_user_data' = NULL
    /\ combined_user_data' = NULL
    /\ new_user_data' = UserData
    /\ current_user_config' = NoConfig
    /\ last_op' = "crash"
    /\ error' = "none"
    /\ ret' = "None"
    /\ wrote' = {}
    /\ notification' = "none"
    /\ consecutive_saves' = 0
    /\ only_adds' = FALSE
    /\ dup_added' = FALSE
    /\ UNCHANGED <<dir_exists, procs, platform, launches_at_load>>
    /\ prompt' = FALSE

NextCrash == Next \/ CrashInSave

(***************************************************************************)
(* Two processes constructing a DataManager for the same username.  Each   *)
(* runs DataManager.__init__ one file-system call at a time: the isdir     *)
(* test and os.makedirs of set_AppData_path, the two open/write pairs of   *)
(* create_new_user, and the two reads of load_data.                        *)
(***************************************************************************)

\* the handler never finding data.json
after_FileExistsError_absent(d) == FALSE

\* set_AppData_path after os.makedirs raised FileExistsError: the warning is
\* logged and the result is os.path.isfile(user_data_file); no exception
\* leaves the handler
after_FileExistsError(d) == d.tag # "absent"

\* the platform test, then
\* if not os.path.isdir(self.user_app_data_dir): ... else return True
IsDir(p) ==
    /\ procs[p].pc = "isdir"
    /\ procs' = IF ~platform_supported(platform)
                THEN [procs EXCEPT ![p].error = "NotImplementedError", ![p].pc = "failed"]
                ELSE [procs EXCEPT ![p].existed = dir_exists,
                                   ![p].pc = IF dir_exists THEN "load_data" ELSE "makedirs"]
    /\ UNCHANGED <<disk, session, platform, launches_at_load, prompt>>

\* os.makedirs(self.user_app_data_dir) and its except FileExistsError branch,
\* then __init__'s "if not user_AppData_folder_exists"
MakeDirs(p) ==
    /\ procs[p].pc = "makedirs"
    /\ LET lost    == dir_exists
           existed == lost /\ after_FileExistsError(data_file)
       IN  procs' = [procs EXCEPT ![p].race = IF lost THEN "lost" ELSE "won",
                                  ![p].existed = existed,
                                  ![p].pc = IF existed THEN "load_data"
                                                       ELSE "create_data_open"]
    /\ dir_exists' = TRUE
    /\ UNCHANGED <<data_file, config_file, session, platform, launches_at_load, prompt>>

\* file.write on a handle opened with "wb" puts the bytes at offset 0 and
\* leaves what lies beyond them: when another process has written a longer
\* document since the open, the file is new's bytes followed by the tail of
\* that document, which is no complete JSON document
overwrite_data(cur, new) ==
    IF DataBytes(cur) > DataBytes(new) THEN TruncatedFile ELSE new

overwrite_config(cur, new) ==
    IF ConfigBytes(cur) > ConfigBytes(new) THEN TruncatedConfig ELSE new

\* create_new_user: open(self.user_data_file, "wb")
CreateDataOpen(p) ==
    /\ procs[p].pc = "create_data_open"
    /\ data_file' = TruncatedFile
    /\ procs' = [procs EXCEPT ![p].bootstrapped = TRUE, ![p].pc = "create_data_write"]
    /\ UNCHANGED <<dir_exists, config_file, session, platform, launches_at_load, prompt>>

\* create_new_user: file.write(msgspec.json.encode(UserData()))
CreateDataWrite(p) ==
    /\ procs[p].pc = "create_data_write"
    /\ data_file' = overwrite_data(data_file, create_new_user.data_file)
    /\ procs' = [procs EXCEPT ![p].pc = "create_config_open"]
    /\ UNCHANGED <<dir_exists, config_file, session, platform, launches_at_load, prompt>>

\* create_new_user: open(self.user_config_file, "wb"), get_user_data_size()
CreateConfigOpen(p) ==
    /\ procs[p].pc = "create_config_open"
    /\ config_file' = TruncatedConfig
    /\ procs' = [procs EXCEPT ![p].data_size = get_user_data_size(data_file, TruncatedConfig),
                              ![p].pc = "create_config_write"]
    /\ UNCHANGED <<dir_exists, data_file, session, platform, launches_at_load, prompt>>

\* create_new_user: file.write(msgspec.json.encode(user_config))
CreateConfigWrite(p) ==
    /\ procs[p].pc = "create_config_write"
    /\ config_file' = overwrite_config(config_file,
                           ConfigFile([create_new_user.config_file.val
                                         EXCEPT !.data_size = procs[p].data_size]))
    /\ procs' = [procs EXCEPT ![p].pc = "load_data"]
    /\ UNCHANGED <<dir_exists, data_file, session, platform, launches_at_load, prompt>>

\* load_data: read and decode data.json
LoadData(p) ==
    /\ procs[p].pc = "load_data"
    /\ LET l == load_data(data_file, create_new_user.config_file)
       IN  procs' = [procs EXCEPT ![p].error = l.error,
                                  ![p].data = IF l.error = "none"
                                              THEN l.heap[l.boot_user_data] ELSE @,
                                  ![p].pc = IF l.error = "none" THEN "load_config"
                                                               ELSE "failed"]
    /\ UNCHANGED <<disk, session, platform, launches_at_load, prompt>>

\* load_data: read and decode config.json
LoadConfig(p) ==
    /\ procs[p].pc = "load_config"
    /\ LET l == load_data(create_new_user.data_file, config_file)
       IN  procs' = [procs EXCEPT ![p].error = l.error,
                                  ![p].config = l.current_user_config,
                                  ![p].pc = IF l.error = "none" THEN "done" ELSE "failed"]
    /\ UNCHANGED <<disk, session, platform, launches_at_load, prompt>>

\* the user of a constructed process adds an expense and presses Save:
\* add_expense_btn_clk, then save_data_btn_clk
AddAndSave(p) ==
    /\ procs[p].pc = "done"
    /\ LET a == add_expense((BootObj :> procs[p].data), BootObj, UserData, Coffee)
           r == save_data(a.heap, BootObj, a.new_user_data, procs[p].config,
                          data_file, config_file, "none")
       IN  /\ data_file' = r.data_file
           /\ config_file' = r.config_file
           /\ procs' = [procs EXCEPT ![p].data = a.heap[BootObj],
                                     ![p].config = r.current_user_config,
                                     ![p].pc = "saved"]
    /\ UNCHANGED <<dir_exists, session, platform, launches_at_load, prompt>>

NextBoot ==
    \E p \in Procs :
        \/ IsDir(p)
        \/ MakeDirs(p)
        \/ CreateDataOpen(p)
        \/ CreateDataWrite(p)
        \/ CreateConfigOpen(p)
        \/ CreateConfigWrite(p)
        \/ LoadData(p)
        \/ LoadConfig(p)
        \/ AddAndSave(p)

\* normal operation: every file operation succeeds
Spec == Init /\ [][Next]_vars

\* the same program on a disk where up to MaxFaults file operations fail
SpecFaults == InitFaults /\ [][Next]_vars

\* the program when up to MaxFaults of its runs are killed inside save_data
SpecCrash == InitFaults /\ [][NextCrash]_vars

\* the program on any host, recognised or not
SpecHost == InitHost /\ [][Next]_vars

\* the program with the "create tag" box in use
SpecTags == Init /\ [][NextTags]_vars

\* one session with the "create tag" box and the Logout button in use
SpecLogout == Init /\ [][NextLogout]_vars

\* two processes start the program for the same username at the same time
SpecBoot == Init /\ [][NextBoot]_vars

(***************************************************************************)
(* Properties.                                                             *)
(***************************************************************************)

\* "equal in content": the expenses in order and the three indices as sets of
\* strings, whichever Python container holds them
Content(ud) == [expenses   |-> ud.expenses,
                names      |-> ud.names.elems,
                categories |-> ud.categories.elems,
                tags       |-> ud.tags.elems]

\* what decoding data.json yields
DiskContent == Content(json_decode(data_file.val))

\* C1: after any sequence of add_expense calls with no save or revert in
\* between, combined_data.expenses is boot_data.expenses followed by
\* new_data.expenses, in order.
C1_CombinedIsBootThenNew ==
    (pc = "running" /\ only_adds)
        => CombinedData.expenses = BootData.expenses \o new_user_data.expenses

\* C2: boot_data is immutable after load: no add_expense, save or revert
\* changes its expenses or its names, categories and tags.
C2_BootImmutable ==
    [][(pc = "running" /\ pc' = "running") => Content(BootData') = Content(BootData)]_vars

C4_RevertRestoresBoot ==
    [][(last_op' = "revert" /\ ~dup_added)
         => /\ Content(CombinedData') = Content(BootData')
            /\ data_file'.tag = "json" => Content(CombinedData') = DiskContent'
            /\ new_user_data' = UserData]_vars

\* C4 witness: a revert has discarded staged expenses of a session without
\* duplicates, leaving persisted expenses in the combined view
C4_Witness ==
    /\ last_op = "revert" /\ ~dup_added
    /\ CombinedData.expenses # << >>
    /\ Len(CombinedData.expenses) < MaxExpenses
    /\ CombinedData.names.kind = "list"
    /\ new_user_data = UserData

\* C5: after revert(), combined_data equals what reloading data.json would
\* produce, for every sequence of add_expense calls since the last load or
\* save, duplicates of persisted expenses included.
C5_RevertEqualsReload ==
    (last_op = "revert" /\ data_file.tag = "json") => Content(CombinedData) = DiskContent

\* the typed failure the design calls CorruptDataError: the validation error
\* of the decoder reaching the caller
CorruptDataErrors == {"CorruptDataError", "ValidationError"}

\* C6: loading a data.json that fails schema validation makes construct fail
\* with CorruptDataError, and the store never holds an empty or partly
\* populated UserData as if the user were new.
C6_CorruptFileRaisesCorruptDataError ==
    (last_op = "construct" /\ data_file.tag = "wrong_type")
        => (error \in CorruptDataErrors /\ pc = "stopped" /\ heap = NoHeap)

\* C7: if the data-file write or the config-file write of save() fails, the
\* in-memory state is not reset: new_data and combined_data are as before the
\* call.
C7_FailedSaveKeepsMemory ==
    [][(last_op' = "save" /\ error' # "none")
         => (new_user_data' = new_user_data /\ heap' = heap)]_vars

\* C8: add_expense cannot fail: in every reachable state of a session it
\* completes without error and appends the expense to both new_data.expenses
\* and combined_data.expenses.
C8_AddExpenseCannotFail ==
    last_op = "add_expense"
        => /\ error = "none"
           /\ new_user_data.expenses # << >>
           /\ CombinedData.expenses # << >>
           /\ new_user_data.expenses[Len(new_user_data.expenses)]
                = CombinedData.expenses[Len(CombinedData.expenses)]

\* C9: save() returns true whenever a write occurred (there was staged data
\* to save), so that the caller reports success after saving new expenses.
C9_SaveReturnsTrueOnWrite ==
    [][(last_op' = "save" /\ error' = "none" /\ new_user_data # UserData)
         => (wrote' # {} /\ ret' = "True" /\ notification' = "success")]_vars

\* C10: of two save() calls in a row with no add_expense in between only the
\* first writes; the second reports "nothing to save" and leaves data.json and
\* config.json exactly as the first left them.
C10_SecondSaveIsNoOp ==
    [][(last_op = "save" /\ error = "none" /\ last_op' = "save" /\ error' = "none")
         => /\ wrote' = {}
            /\ notification' = "warning"
            /\ data_file' = data_file
            /\ config_file' = config_file]_vars

\* C11: at every point at which the process can terminate abruptly, the
\* middle of save() included, data.json is either the complete previously
\* committed content or the complete new combined_data: never an empty,
\* truncated or torn file.
C11_CrashLeavesWholeDataFile ==
    [][last_op' = "crash"
         => (data_file' = data_file \/ data_file' = DataFile(CombinedData))]_vars

\* C12: add_expense(e) inserts each of e.name, e.category and every tag of
\* e.tags into new_data's index if and only if the value was absent from
\* combined_data's index before the call; a value already present is added to
\* neither index, and after the call every such value is in combined_data's
\* index.
C12_StagedIffAbsentFromCombined ==
    [][last_op' = "add_expense"
         => LET e == new_user_data'.expenses[Len(new_user_data'.expenses)]
                staged(f, v) ==
                    /\ v \notin CombinedData[f].elems => v \in new_user_data'[f].elems
                    /\ v \in CombinedData[f].elems
                         => /\ (v \in new_user_data'[f].elems) = (v \in new_user_data[f].elems)
                            /\ CombinedData'[f].elems = CombinedData[f].elems
                    /\ v \in CombinedData'[f].elems
            IN  /\ staged("names", e.name)
                /\ staged("categories", e.category)
                /\ \A t \in e.tags : staged("tags", t)]_vars

\* C13: combined_data.names, categories and tags only grow across add_expense
\* calls: every value present before an add_expense call is present after it.
C13_IndicesOnlyGrow ==
    [][last_op' = "add_expense"
         => /\ CombinedData.names.elems \subseteq CombinedData'.names.elems
            /\ CombinedData.categories.elems \subseteq CombinedData'.categories.elems
            /\ CombinedData.tags.elems \subseteq CombinedData'.tags.elems]_vars

\* C13 witness: an add_expense has added a name to an index that already held
\* one
C13_Witness ==
    /\ last_op = "add_expense" /\ error = "none"
    /\ Cardinality(CombinedData.names.elems) = 2
    /\ Cardinality(new_user_data.names.elems) = 1

\* C14: at every point of a session each of combined_data.names, categories
\* and tags is the union of the corresponding boot_data and new_data index
\* sets.
C14_CombinedIndexIsUnion ==
    pc = "running"
        => \A f \in {"names", "categories", "tags"} :
             CombinedData[f].elems = BootData[f].elems \cup new_user_data[f].elems

\* C15: add_expense and revert write no files: data.json and config.json are
\* the same before and after each of them, and the only operations that
\* change either file are the bootstrap of a new user and save.
C15_OnlyBootstrapAndSaveWrite ==
    [][/\ last_op' \in {"add_expense", "revert"}
            => data_file' = data_file /\ config_file' = config_file
       /\ (data_file' # data_file \/ config_file' # config_file)
            => \/ last_op' = "save"
               \/ last_op' = "construct" /\ ~dir_exists]_vars

\* C15 witness: a revert has discarded staged data while data.json holds a
\* saved expense
C15_Witness ==
    /\ last_op = "revert"
    /\ data_file.tag = "json"
    /\ Len(data_file.val.expenses) = 1
    /\ Len(CombinedData.expenses) = 1
    /\ wrote = {}

\* C16: constructing the store when the user directory does not exist
\* creates the directory, writes data.json holding an empty UserData and
\* config.json with launches = 1; when construct returns the on-disk launches
\* is 1 and boot, combined and new data are all empty.
C16_FreshUserBootstrap ==
    [][last_op' = "construct" /\ ~dir_exists
         => /\ dir_exists'
            /\ data_file' = DataFile(UserData)
            /\ json_decode(data_file'.val) = UserData
            /\ config_file'.tag = "json"
            /\ config_file'.val.launches = 1
            /\ error' = "none" /\ pc' = "running"
            /\ BootData' = UserData
            /\ CombinedData' = UserData
            /\ new_user_data' = UserData]_vars

\* C16 witness: a construct has bootstrapped a new user
C16_Witness ==
    /\ last_op = "construct"
    /\ wrote = {"data", "config"}
    /\ pc = "running"
    /\ config_file.val.launches = 1

\* C17: constructing the store for an existing user does not run bootstrap
\* or modify data.json, and leaves boot data equal to the decoded content of
\* data.json, combined data equal to boot data and new data empty.
C17_ExistingUserLoad ==
    [][last_op' = "construct" /\ dir_exists
         => /\ data_file' = data_file
            /\ config_file' = config_file
            /\ wrote' = {}
            /\ error' = "none"
                 => /\ BootData' = json_decode(data_file.val)
                    /\ CombinedData' = BootData'
                    /\ new_user_data' = UserData]_vars

\* C17 witness: a construct has loaded a saved expense of an existing user
C17_Witness ==
    /\ last_op = "construct"
    /\ wrote = {}
    /\ pc = "running"
    /\ Len(BootData.expenses) = 1
    /\ data_file.val = json_encode(BootData)

\* C18: load increments launches in memory by exactly one over the value
\* stored in config.json and does not write config.json; the persisted
\* launches changes only when save runs, and save writes the in-memory value.
C18_LaunchesPersistedOnSave ==
    [][/\ last_op' = "construct" /\ error' = "none"
            => /\ current_user_config'.launches = config_file'.val.launches + 1
               /\ dir_exists => config_file' = config_file
               /\ ~dir_exists => config_file' = create_new_user.config_file
       /\ (config_file.tag = "json" /\ config_file'.tag = "json"
             /\ config_file'.val.launches # config_file.val.launches)
            => last_op' = "save"
       /\ (last_op' = "save" /\ "config" \in wrote')
            => config_file'.val.launches = current_user_config.launches]_vars

\* C18 witness: a save has persisted a launches count that a load incremented
C18_Witness ==
    /\ last_op = "save"
    /\ "config" \in wrote
    /\ config_file.val.launches = 2
    /\ current_user_config.launches = 2

\* C19: when os.makedirs fails because another process made the directory
\* first, set_AppData_path raises nothing; if data.json is present at that
\* moment it reports the user as existing and __init__ goes on to load_data
\* without running create_new_user.
C19_LostRaceWithDataFile ==
    /\ [][\A p \in Procs :
            (procs[p].race = "none" /\ procs'[p].race = "lost")
              => /\ procs'[p].error = "none"
                 /\ procs'[p].pc # "failed"
                 /\ data_file.tag # "absent"
                      => procs'[p].existed /\ procs'[p].pc = "load_data"]_vars
    /\ [](\A p \in Procs :
            (procs[p].race = "lost" /\ procs[p].existed)
              => /\ ~procs[p].bootstrapped
                 /\ procs[p].pc \notin {"create_data_open", "create_data_write",
                                         "create_config_open", "create_config_write"})

\* C19 witness: a process that lost the race found data.json, skipped
\* create_new_user and loaded the files the other process wrote
C19_Witness ==
    \E p \in Procs :
        /\ procs[p].race = "lost"
        /\ procs[p].existed
        /\ procs[p].pc = "done"

\* C20: when os.makedirs loses the race and no data.json is found after it,
\* the condition reaches the caller of the constructor as an error.
C20_LostRaceNoDataFileRaises ==
    [][\A p \in Procs :
         (procs[p].race = "none" /\ procs'[p].race = "lost" /\ data_file.tag = "absent")
           => procs'[p].error # "none"]_vars

\* C21: on a host whose platform.system() is not one of the recognised
\* platforms, constructing the DataManager fails with the error raised by
\* set_AppData_path (NotImplementedError) and no directory or file has been
\* created or modified.
C21_UnsupportedPlatformFailsFirst ==
    [][last_op' = "construct" /\ platform \notin RecognizedPlatforms
         => /\ error' = "NotImplementedError"
            /\ pc' = "stopped"
            /\ dir_exists' = dir_exists
            /\ data_file' = data_file
            /\ config_file' = config_file]_vars

\* C21 witness: a construct has failed on an unrecognised host that has no
\* user directory
C21_Witness ==
    /\ platform \notin RecognizedPlatforms
    /\ last_op = "construct"
    /\ error = "NotImplementedError"
    /\ ~dir_exists
    /\ data_file = AbsentFile

\* C22: whenever set_AppData_path has reported the user as existing (so
\* create_new_user is skipped), data.json exists when load_data opens it and
\* config.json exists when load_data opens it, also while another process is
\* bootstrapping the same new user.
C22_ExistedImpliesFilesAtLoad ==
    [][\A p \in Procs :
         procs[p].existed
           => /\ (procs[p].pc = "load_data" /\ procs'[p].pc # "load_data")
                   => data_file.tag # "absent"
              /\ (procs[p].pc = "load_config" /\ procs'[p].pc # "load_config")
                   => config_file.tag # "absent"]_vars

\* C23: create_new_user never overwrites a data.json that holds saved
\* expenses: under every interleaving of two processes constructing a
\* DataManager for the same new user, a step of create_new_user leaves a
\* data.json with expenses in it as it is.
C23_BootstrapKeepsSavedExpenses ==
    [][\A p \in Procs :
         (/\ procs[p].pc \in {"create_data_open", "create_data_write"}
          /\ procs'[p].pc # procs[p].pc
          /\ data_file.tag = "json"
          /\ data_file.val.expenses # << >>)
           => data_file' = data_file]_vars

\* C24: at every point of a session new_user_data's names, categories and
\* tags are subsets of combined_user_data's and are disjoint from the index
\* values that data.json held at the last load or successful save.
C24_StagedIndicesWithinCombined ==
    (pc = "running" /\ data_file.tag = "json")
        => \A f \in {"names", "categories", "tags"} :
             /\ new_user_data[f].elems \subseteq CombinedData[f].elems
             /\ new_user_data[f].elems \cap Range(data_file.val[f]) = {}

\* C25: when the loaded data.json is index-consistent, after any sequence of
\* add_expense, save and revert every expense of combined_user_data.expenses
\* has its name in combined names, its category in combined categories and
\* each of its tags in combined tags.
C25_IndexConsistency ==
    pc = "running"
        => \A i \in 1..Len(CombinedData.expenses) :
             LET e == CombinedData.expenses[i]
             IN  /\ e.name \in CombinedData.names.elems
                 /\ e.category \in CombinedData.categories.elems
                 /\ e.tags \subseteq CombinedData.tags.elems

\* C26: across the sessions of one user the launches count never decreases
\* and each successful load makes it exactly one more than the load before
\* it did, whether or not the session in between saved; save calls within a
\* session do not change it.
C26_LaunchesCountsEveryLoad ==
    [][/\ (last_op' = "construct" /\ error' = "none" /\ launches_at_load > 0)
            => current_user_config'.launches = launches_at_load + 1
       /\ (pc = "running" /\ pc' = "running")
            => current_user_config'.launches = current_user_config.launches
       /\ (config_file.tag = "json" /\ config_file'.tag = "json")
            => config_file'.val.launches >= config_file.val.launches]_vars

\* C27: a tag entered in the "create tag" box is staged like a tag carried
\* by an expense: it is inserted into both new_user_data.tags and
\* combined_user_data.tags if and only if it was not already in the combined
\* tags (otherwise neither changes), and a later revert leaves none of the
\* staged tags in the combined tags.
C27_CreatedTagIsStaged ==
    [][/\ last_op' = "create_tag"
            => /\ notification' = "error"
                    => /\ new_user_data'.tags.elems = new_user_data.tags.elems
                       /\ CombinedData'.tags.elems = CombinedData.tags.elems
               /\ notification' # "error"
                    => \E t \in TagInputs \ CombinedData.tags.elems :
                         /\ new_user_data'.tags.elems = new_user_data.tags.elems \cup {t}
                         /\ CombinedData'.tags.elems = CombinedData.tags.elems \cup {t}
       /\ last_op' = "revert"
            => CombinedData'.tags.elems \cap new_user_data.tags.elems = {}]_vars

\* C28: a click on Logout shows the unsaved-changes prompt exactly when
\* new_user_data differs from an empty UserData; the answer Yes runs save_data
\* and the answer No runs revert_data, and after either answer new_user_data
\* is empty and the prompt is hidden.
C28_LogoutPromptAndAnswers ==
    [][/\ last_op' = "logout_click"
            => /\ new_user_data # UserData => prompt'
               /\ new_user_data = UserData => prompt' = prompt
               /\ new_user_data' = new_user_data
       /\ last_op' = "answer_yes"
            => /\ data_file' = DataFile(CombinedData)
               /\ wrote' = {"data", "config"}
               /\ new_user_data' = UserData
               /\ ~prompt'
       /\ last_op' = "answer_no"
            => /\ data_file' = data_file /\ config_file' = config_file
               /\ \A e \in Range(new_user_data.expenses) :
                    e \notin Range(CombinedData'.expenses)
               /\ CombinedData'.tags.elems \cap new_user_data.tags.elems = {}
               /\ new_user_data' = UserData
               /\ ~prompt']_vars

\* C28 witness: the prompt was shown for a staged tag and a staged expense
\* and the answer Yes has saved them
C28_Witness ==
    /\ last_op = "answer_yes"
    /\ ~prompt
    /\ new_user_data = UserData
    /\ Len(data_file.val.expenses) = 1
    /\ Len(data_file.val.tags) = 2

====
